---- MODULE Spec2Model ----
(***************************************************************************)
(* The resilient request pipeline of apigee_hybrid_mcp: ApigeeClient       *)
(* (api/client.py) with its RateLimiter and circuit breaker                *)
(* (utils/resilience.py).                                                  *)
(*                                                                         *)
(* The client runs on an asyncio event loop: the code between two awaits   *)
(* of one coroutine is one atomic step.  _request has two suspension       *)
(* points, `await session.request(...)` (inside the breaker-wrapped        *)
(* closure) and `await response.text()`.  Several invocations of one       *)
(* client interleave at these points.                                      *)
(*                                                                         *)
(* Time is an integer number of seconds.  The limiter's tokens are a       *)
(* rational number of the form k / window_seconds; the model stores k      *)
(* (tokens scaled by window_seconds), which is exact.                      *)
(*                                                                         *)
(* The breaker object is circuitbreaker.CircuitBreaker, constructed by     *)
(* create_circuit_breaker and applied as a decorator to the async closure  *)
(* in _request: it stores CLOSED or OPEN, a failure count and the opening  *)
(* time; HALF_OPEN is what its state property reports for a stored OPEN    *)
(* whose recovery timeout has elapsed.                                     *)
(***************************************************************************)
EXTENDS Integers, Sequences, FiniteSets, TLC

\* ---------------------------------------------------------------- bounds
\* the clock runs from 0 to MaxTime
MaxTime == 4
\* the clock of the limiter on its own runs from 0 to MaxWait
MaxWait == 6
\* settings.rate_limit_requests (default 100), scaled down
requests_per_window == 2
\* settings.rate_limit_window (default 60), scaled down
window_seconds == 4
\* settings.circuit_breaker_failure_threshold (default 5), scaled down
failure_threshold == 2
\* settings.circuit_breaker_timeout (default 60), scaled down
recovery_timeout == 2

\* the _request invocations of the one client that may be in flight together
Requests == {"r1", "r2"}
\* direct acquire() calls followed: two bursts that each empty a full bucket
MaxCalls == 2 * requests_per_window + 2

\* outcomes of credentials.refresh(Request()): it raises, or it leaves this token
RefreshOutcomes == {"raise", "none", "empty", "tok"}
\* exceptions the awaited transport call or body read can raise
TransportExceptions == {"asyncio.TimeoutError", "aiohttp.ClientError"}

Min(a, b) == IF a <= b THEN a ELSE b

\* ------------------------------------------------------------------- text
\* a str is the sequence of its characters
EmptyText == << >>
Space == <<" ">>
Slash == <<"/">>
GET == <<"G", "E", "T">>
POST == <<"P", "O", "S", "T">>
\* "environments/prod"
EnvironmentsProd ==
  <<"e", "n", "v", "i", "r", "o", "n", "m", "e", "n", "t", "s", "/", "p", "r", "o", "d">>
\* "/organizations/acme/apis"
SlashOrganizationsAcmeApis ==
  <<"/", "o", "r", "g", "a", "n", "i", "z", "a", "t", "i", "o", "n", "s", "/", "a", "c",
    "m", "e", "/", "a", "p", "i", "s">>
\* "https://api.example/v1"
ApiExampleV1 ==
  <<"h", "t", "t", "p", "s", ":", "/", "/", "a", "p", "i", ".", "e", "x", "a", "m", "p",
    "l", "e", "/", "v", "1">>
Acme == <<"a", "c", "m", "e">>
\* the body {"a":1}
JsonText == <<"{", "\"", "a", "\"", ":", "1", "}">>
\* a body that is not JSON: "OK"
PlainText == <<"O", "K">>

\* "organizations/"
OrganizationsSlash ==
  <<"o", "r", "g", "a", "n", "i", "z", "a", "t", "i", "o", "n", "s", "/">>
\* "organizations"
Organizations ==
  <<"o", "r", "g", "a", "n", "i", "z", "a", "t", "i", "o", "n", "s">>
\* "organizationsx/y"
OrganizationsxY ==
  <<"o", "r", "g", "a", "n", "i", "z", "a", "t", "i", "o", "n", "s", "x", "/", "y">>
Apis == <<"a", "p", "i", "s">>
\* "http://h/"
HttpH == <<"h", "t", "t", "p", ":", "/", "/", "h", "/">>

\* text.lstrip(ch)
lstripMutant(text, ch) ==
  IF text /= EmptyText /\ Head(text) = ch THEN Tail(text) ELSE text
RECURSIVE lstrip(_, _)
lstrip(text, ch) ==
  IF text /= EmptyText /\ Head(text) = ch THEN lstrip(Tail(text), ch) ELSE text

\* text.startswith(prefix)
startswith(text, prefix) ==
  Len(text) >= Len(prefix) /\ SubSeq(text, 1, Len(prefix)) = prefix

\* ------------------------------------------------------------------- dict
\* a dict is a function from its keys to their values
EmptyDict == [k \in {} |-> 0]
\* d[k] = v
Put(d, k, v) == [j \in DOMAIN d \cup {k} |-> IF j = k THEN v ELSE d[j]]
\* d.update(e)
Update(d, e) == [j \in DOMAIN d \cup DOMAIN e |-> IF j \in DOMAIN e THEN e[j] ELSE d[j]]

\* --------------------------------------------------------------- Settings
\* Settings.request_timeout as shipped
DefaultRequestTimeout == 30
\* Settings.request_timeout: any int is accepted
RequestTimeouts == {0, DefaultRequestTimeout}
\* the _request call made by each invocation: method and path
Args ==
  [r1 |-> [method |-> GET, path |-> EnvironmentsProd],
   r2 |-> [method |-> POST, path |-> SlashOrganizationsAcmeApis]]
\* responses the transport can deliver: status and body
Responses ==
  {[status |-> 200, text |-> t] : t \in {EmptyText, JsonText, PlainText}}
    \cup {[status |-> st, text |-> PlainText] : st \in {401, 404, 418, 500}}

VARIABLES
  settings,        \* self.settings: [request_timeout, base_url, organization]
  now,             \* time.time() / monotonic(), seconds
  session,         \* self.session: "none" (None), "open", "closed" (closed, still referenced)
  credentials,     \* self.credentials: [configured, token, expired]
  rate_limiter,    \* self.rate_limiter: [tokens (scaled), last_update]
  circuit_breaker, \* self.circuit_breaker: [state, failure_count, opened]
  inv,             \* the _request invocations in flight: position and what each did
  last,            \* the invocation that ended last: its outcome and what it did
  grants,          \* number of acquire() calls that returned True since construction
  calls,           \* the direct calls of rate_limiter.acquire(): when, and what each returned
  call,            \* a function called on its own: its arguments and, once returned, its result
  error,           \* the AppError constructed last, with the arguments of its constructor
  correlation_ids, \* the correlation_id of every AppError constructed, oldest first
  log,             \* the events handed to the structlog logger, oldest first
  repository,      \* InMemoryTeamRepository: [teams, teams_by_name]
  outcome,         \* what the last operation on the repository returned or raised
  tool,            \* the call_tool invocation made last: its arguments, position and result
  sessions         \* per client instance: the aiohttp sessions it created, self.session
                   \* and the scopes entered and not left

\* the client and what is followed of its invocations
client_vars ==
  <<now, session, credentials, rate_limiter, circuit_breaker, inv, last, grants, calls>>

\* the state of the units that are followed on their own
other_vars == <<call, error, correlation_ids, log, repository, outcome, tool, sessions>>

vars == <<settings, client_vars, other_vars>>

\* ------------------------------------------------------------ RateLimiter
\* tokens + time_passed * requests_per_window / window_seconds, capped
RefillMutant(tokens, time_passed) == tokens + time_passed * requests_per_window
Refill(tokens, time_passed) ==
  Min(requests_per_window * window_seconds, tokens + time_passed * requests_per_window)

\* if self.tokens >= 1
HasTokenMutant(tokens) == tokens > 0
HasToken(tokens) == tokens >= window_seconds

\* self.tokens -= 1
SpendMutant(tokens) == tokens
Spend(tokens) == tokens - window_seconds

\* RateLimiter.acquire at time t: the limiter after the call and the value returned
acquireMutant(rl, t) ==
  [rl |-> [tokens |-> Refill(rl.tokens, t - rl.last_update), last_update |-> t],
   granted |-> HasToken(Refill(rl.tokens, t - rl.last_update))]
acquire(rl, t) ==
  LET refilled == Refill(rl.tokens, t - rl.last_update) IN
  IF HasToken(refilled)
  THEN [rl |-> [tokens |-> Spend(refilled), last_update |-> t], granted |-> TRUE]
  ELSE [rl |-> [tokens |-> refilled, last_update |-> t], granted |-> FALSE]

\* RateLimiter.__init__: a full bucket
NewRateLimiter(t) == [tokens |-> requests_per_window * window_seconds, last_update |-> t]

\* --------------------------------------------------------- CircuitBreaker
\* create_circuit_breaker(failure_threshold, timeout_duration, "apigee_api")
NewCircuitBreaker == [state |-> "closed", failure_count |-> 0, opened |-> 0]

\* the recovery timeout has elapsed since the breaker opened
Elapsed(cb, t) == t - cb.opened >= recovery_timeout

\* CircuitBreaker.state: a stored OPEN reads HALF_OPEN once the timeout has elapsed
State(cb, t) ==
  IF cb.state = "open" /\ Elapsed(cb, t) THEN "half_open" ELSE cb.state

\* CircuitBreaker.opened: the decorator rejects the call exactly when this holds
OpenedMutant(cb, t) == cb.state = "open" /\ t - cb.opened >= recovery_timeout
Opened(cb, t) == State(cb, t) = "open"

\* the wrapped call raised
CallFailedMutant(cb, t) ==
  LET n == cb.failure_count + 1 IN
  IF n > failure_threshold
  THEN [state |-> "open", failure_count |-> n, opened |-> t]
  ELSE [cb EXCEPT !.failure_count = n]
CallFailed(cb, t) ==
  LET n == cb.failure_count + 1 IN
  IF n >= failure_threshold
  THEN [state |-> "open", failure_count |-> n, opened |-> t]
  ELSE [cb EXCEPT !.failure_count = n]

\* the wrapped call returned
CallSucceeded(cb) == [cb EXCEPT !.state = "closed", !.failure_count = 0]

\* ------------------------------------------------------------ error taxonomy
\* an error as the caller sees it: the variant, its status and which raise site made it
Err(kind, status, message) ==
  [kind |-> kind, status |-> status, message |-> message, error_type |-> "none",
   details |-> EmptyDict, data |-> EmptyDict]
NoResult == Err("none", 0, "none")
\* _request returns this structure
Success(data) == [Err("success", 0, "none") EXCEPT !.data = data]
\* an exception that is not an AppError, by the name of its class
Exc(class) == Err(class, 0, "none")

\* ExternalServiceError.__init__: status as given, 502 by default
ExternalServiceErrorMutant(status, message) == Err("ExternalServiceError", 502, message)
ExternalServiceError(status, message) == Err("ExternalServiceError", status, message)
\* AuthenticationError.__init__: status 401
AuthenticationError(message) == Err("AuthenticationError", 401, message)
\* ResourceNotFoundError.__init__: status 404, the two identifiers written over details
ResourceNotFoundError(resource_type, resource_id, details) ==
  [Err("ResourceNotFoundError", 404, "not found") EXCEPT
     !.details = Update(details, [resource_type |-> resource_type,
                                  resource_id |-> resource_id])]
\* if timeout_seconds
TimeoutGivenMutant(timeout_seconds) == timeout_seconds > DefaultRequestTimeout
TimeoutGiven(timeout_seconds) == timeout_seconds /= 0
\* TimeoutError.__init__: status 408, the operation and, when given, the timeout in details
AppTimeoutError(operation, timeout_seconds) ==
  [Err("TimeoutError", 408, "Operation timed out") EXCEPT
     !.details = IF TimeoutGiven(timeout_seconds)
                 THEN [operation |-> operation, timeout_seconds |-> timeout_seconds]
                 ELSE [operation |-> operation]]

IsError(r) == r.kind \notin {"none", "success"}
\* isinstance(e, AppError)
IsAppError(e) ==
  e.kind \in {"ExternalServiceError", "AuthenticationError", "ResourceNotFoundError",
              "TimeoutError"}

\* ------------------------------------------------------- credential provider
\* google.oauth2 credentials: valid when a token is held and it has not expired
Valid(cred) == cred.token /= "none" /\ ~cred.expired

\* if token is None: raise
TokenMissing(token) == token = "none"

\* ApigeeClient._get_auth_token, with r the outcome of the refresh should one be made:
\* the credentials after the call, the error raised (NoResult when it returns), the token
\* returned and the number of refreshes attempted
get_auth_tokenMutant(cred, r) ==
  IF ~cred.configured
  THEN [cred |-> cred, raised |-> AuthenticationError("credentials not configured"),
        token |-> "none", refreshes |-> 0]
  ELSE IF ~Valid(cred) /\ r = "raise"
  THEN [cred |-> cred, raised |-> AuthenticationError("failed to refresh"),
        token |-> "none", refreshes |-> 2]
  ELSE LET after == IF Valid(cred) THEN cred
                    ELSE [cred EXCEPT !.token = r, !.expired = FALSE]
           n == IF Valid(cred) THEN 0 ELSE 1
       IN IF TokenMissing(after.token)
          THEN [cred |-> after, raised |-> AuthenticationError("failed to obtain token"),
                token |-> "none", refreshes |-> n]
          ELSE [cred |-> after, raised |-> NoResult, token |-> after.token, refreshes |-> n]
get_auth_token(cred, r) ==
  IF ~cred.configured
  THEN [cred |-> cred, raised |-> AuthenticationError("credentials not configured"),
        token |-> "none", refreshes |-> 0]
  ELSE IF ~Valid(cred) /\ r = "raise"
  THEN [cred |-> cred, raised |-> AuthenticationError("failed to refresh"),
        token |-> "none", refreshes |-> 1]
  ELSE LET after == IF Valid(cred) THEN cred
                    ELSE [cred EXCEPT !.token = r, !.expired = FALSE]
           n == IF Valid(cred) THEN 0 ELSE 1
       IN IF TokenMissing(after.token)
          THEN [cred |-> after, raised |-> AuthenticationError("failed to obtain token"),
                token |-> "none", refreshes |-> n]
          ELSE [cred |-> after, raised |-> NoResult, token |-> after.token, refreshes |-> n]

\* ------------------------------------------------------------ _request
\* if not self.session
SessionMissing(s) == s = "none"

\* json.loads(response_text) for the bodies delivered: the value, or JSONDecodeError
json_loads(text) ==
  IF text = JsonText THEN Success([a |-> 1]) ELSE Exc("JSONDecodeError")

\* status if status >= 500 else 502
SurfacedStatusMutant(status) == status
SurfacedStatus(status) == IF status >= 500 THEN status ELSE 502

\* the body of `async with ... as response` once the text was read: the status is mapped
\* to the exception raised, or the body is parsed and returned
Classify(status, text, path) ==
  IF status >= 400
  THEN IF status = 401 THEN AuthenticationError("API authentication failed")
       ELSE IF status = 404
       THEN ResourceNotFoundError("api_resource", path, [status |-> status])
       ELSE ExternalServiceError(SurfacedStatus(status), "API request failed")
  ELSE IF text /= EmptyText THEN json_loads(text)
  ELSE Success(EmptyDict)

\* the except clauses of _request for an exception e raised inside the try block, in the
\* order of the clauses (CircuitBreakerError, RuntimeError and JSONDecodeError reach
\* `except Exception`, which keeps the type name in details["error_type"])
ExceptClauseMutant(e, method, path, request_timeout) ==
  IF e.kind = "asyncio.TimeoutError"
  THEN AppTimeoutError(method \o Space \o path, request_timeout)
  ELSE IF e.kind = "aiohttp.ClientError"
  THEN [ExternalServiceError(502, "Request failed") EXCEPT !.error_type = e.kind]
  ELSE [ExternalServiceError(502, "Unexpected error") EXCEPT !.error_type = e.kind]
ExceptClause(e, method, path, request_timeout) ==
  IF e.kind = "asyncio.TimeoutError"
  THEN AppTimeoutError(method \o Space \o path, request_timeout)
  ELSE IF e.kind = "aiohttp.ClientError"
  THEN [ExternalServiceError(502, "Request failed") EXCEPT !.error_type = e.kind]
  ELSE IF IsAppError(e) THEN e
  ELSE [ExternalServiceError(502, "Unexpected error") EXCEPT !.error_type = e.kind]

\* what the caller of an invocation receives when e is raised inside its try block
Caught(me, e) == ExceptClause(e, me.method, me.path, settings.request_timeout)

\* no response was read
NoResponse == [status |-> 0, text |-> EmptyText]

\* an invocation that has not started.  Besides its position, its arguments, its outcome,
\* the status of the response it read and the exception raised inside its try block, an
\* invocation keeps what it found at its entry (the session, the breaker's state), what
\* its calls returned (acquire, _get_auth_token) and how often it called each collaborator
Idle ==
  [pc |-> "idle", method |-> EmptyText, path |-> EmptyText,
   result |-> NoResult, response |-> NoResponse, raised |-> NoResult,
   session_at_call |-> "none", breaker_at_call |-> "none",
   acquires |-> 0, granted |-> FALSE, auth_calls |-> 0, bearer |-> "none",
   transport_calls |-> 0, counted |-> "none"]

TypeOK ==
  /\ settings.request_timeout \in RequestTimeouts
  /\ now \in 0..MaxWait
  /\ session \in {"none", "open", "closed"}
  /\ credentials \in [configured : BOOLEAN, token : {"none", "empty", "tok"}, expired : BOOLEAN]
  /\ rate_limiter.tokens \in 0..(requests_per_window * window_seconds)
  /\ rate_limiter.last_update \in 0..MaxWait
  /\ circuit_breaker.state \in {"closed", "open"}
  /\ circuit_breaker.failure_count \in Nat
  /\ circuit_breaker.opened \in 0..MaxTime
  /\ \A i \in Requests : inv[i].pc \in {"idle", "transport"}
  /\ last.pc \in {"idle", "done"}
  /\ grants \in Nat

\* ApigeeClient.__init__: no session, credentials loaded when a path is configured (no
\* token yet), a full bucket, a closed breaker
InitClient ==
  /\ now = 0
  /\ session = "none"
  /\ credentials \in {[configured |-> c, token |-> "none", expired |-> FALSE] : c \in BOOLEAN}
  /\ rate_limiter = NewRateLimiter(0)
  /\ circuit_breaker = NewCircuitBreaker
  /\ inv = [i \in Requests |-> Idle]
  /\ last = Idle
  /\ grants = 0
  /\ calls = << >>

\* the settings the client is constructed with
DefaultSettings ==
  [request_timeout |-> DefaultRequestTimeout, base_url |-> ApiExampleV1,
   organization |-> Acme]

\* nothing was called on its own, no error was constructed, nothing was logged, the
\* repository is as InMemoryTeamRepository.__init__ leaves it
NoCall == [fn |-> "none"]
NoError == [variant |-> "none"]
NoOutcome == [op |-> "none"]
\* what call_tool gave its caller: a response, an error response, or an exception; with
\* the exception raised first inside call_tool
NoToolResult == [kind |-> "none", operation |-> "none", data |-> EmptyDict,
                 exception |-> "none", first |-> "none"]
\* no tool call was made: besides the call's name, arguments, position and result, the
\* number of calls made, the number of calls whose transport call failed, and whether the
\* team a team tool named was stored
NoTool == [pc |-> "idle", name |-> "none", arguments |-> EmptyDict, result |-> NoToolResult,
           count |-> 0, failed |-> 0, stored |-> FALSE]
NoSessions == << >>
NewRepository == [teams |-> EmptyDict, teams_by_name |-> EmptyDict]
InitOthers ==
  /\ call = NoCall
  /\ error = NoError
  /\ correlation_ids = << >>
  /\ log = << >>
  /\ repository = NewRepository
  /\ outcome = NoOutcome
  /\ tool = NoTool
  /\ sessions = NoSessions

Init ==
  /\ settings = DefaultSettings
  /\ InitClient
  /\ InitOthers

\* time passes (while the pipeline runs)
Tick ==
  /\ now < MaxTime
  /\ now' = now + 1
  /\ UNCHANGED <<settings, other_vars, session, credentials, rate_limiter, circuit_breaker, inv, last, grants, calls>>

\* ApigeeClient.__aenter__
Enter ==
  /\ session = "none"
  /\ session' = "open"
  /\ UNCHANGED <<settings, other_vars, now, credentials, rate_limiter, circuit_breaker, inv, last, grants, calls>>

\* ApigeeClient.__aexit__: the session is closed, self.session keeps referring to it
Exit ==
  /\ session = "open"
  /\ session' = "closed"
  /\ UNCHANGED <<settings, other_vars, now, credentials, rate_limiter, circuit_breaker, inv, last, grants, calls>>

\* the token held by the credentials expires
Expire ==
  /\ Valid(credentials)
  /\ credentials' = [credentials EXCEPT !.expired = TRUE]
  /\ UNCHANGED <<settings, other_vars, now, session, rate_limiter, circuit_breaker, inv, last, grants, calls>>

\* invocation i ends with outcome res: the caller receives it (the arguments are the
\* caller's own and are not kept)
Ends(i, rec, res) ==
  /\ inv' = [inv EXCEPT ![i] = Idle]
  /\ last' = [rec EXCEPT !.pc = "done", !.result = res,
                         !.method = EmptyText, !.path = EmptyText]

\* _request from its entry to its first suspension point, `await session.request(...)`:
\* the session guard, the rate limiter, the credential provider, the breaker's admission
RequestStart(i, r) ==
  /\ inv[i].pc = "idle"
  /\ LET me == [Idle EXCEPT !.method = Args[i].method, !.path = Args[i].path,
                            !.session_at_call = session,
                            !.breaker_at_call = State(circuit_breaker, now)]
         acq == acquire(rate_limiter, now)
         auth == get_auth_token(credentials, r)
     IN
     IF SessionMissing(session)
     THEN /\ Ends(i, me, ExternalServiceError(502, "Client session not initialized"))
          /\ UNCHANGED <<rate_limiter, credentials, circuit_breaker, grants>>
     ELSE IF ~acq.granted
     THEN /\ rate_limiter' = acq.rl
          /\ Ends(i, [me EXCEPT !.acquires = 1], ExternalServiceError(429, "Rate limit exceeded"))
          /\ UNCHANGED <<credentials, circuit_breaker, grants>>
     ELSE LET me2 == [me EXCEPT !.acquires = 1, !.granted = TRUE, !.auth_calls = 1,
                                !.bearer = auth.token]
          IN
          /\ rate_limiter' = acq.rl
          /\ grants' = grants + 1
          /\ credentials' = auth.cred
          /\ IF IsError(auth.raised)
             THEN /\ Ends(i, me2, auth.raised)
                  /\ UNCHANGED circuit_breaker
             ELSE IF Opened(circuit_breaker, now)
             THEN \* CircuitBreakerError, caught by `except Exception`
                  /\ Ends(i, [me2 EXCEPT !.raised = Exc("CircuitBreakerError")],
                          Caught(me2, Exc("CircuitBreakerError")))
                  /\ UNCHANGED circuit_breaker
             ELSE IF session = "closed"
             THEN \* the closed session refuses the request: RuntimeError in the wrapped call
                  /\ circuit_breaker' = CallFailed(circuit_breaker, now)
                  /\ Ends(i, [me2 EXCEPT !.transport_calls = 1, !.counted = "failure",
                                           !.raised = Exc("RuntimeError")],
                          Caught(me2, Exc("RuntimeError")))
             ELSE /\ inv' = [inv EXCEPT ![i] =
                         [me2 EXCEPT !.pc = "transport", !.transport_calls = 1]]
                  /\ UNCHANGED <<circuit_breaker, last>>
  /\ UNCHANGED <<settings, other_vars, now, session, calls>>

\* session.request raises: the breaker-wrapped call raised
TransportRaise(i, e) ==
  /\ inv[i].pc = "transport"
  /\ circuit_breaker' = CallFailed(circuit_breaker, now)
  /\ Ends(i, [inv[i] EXCEPT !.counted = "failure", !.raised = Exc(e)],
          Caught(inv[i], Exc(e)))
  /\ UNCHANGED <<settings, other_vars, now, session, credentials, rate_limiter, grants, calls>>

\* session.request returns a response with this status (the breaker-wrapped call
\* returned), response.text() returns this text and the status is mapped to the outcome.
\* The body read is a suspension point of its own, after which only the invocation's own
\* data is touched: the two steps are taken as one
Respond(i, response) ==
  /\ inv[i].pc = "transport"
  /\ circuit_breaker' = CallSucceeded(circuit_breaker)
  /\ LET out == Classify(response.status, response.text, inv[i].path) IN
     IF out.kind = "success"
     THEN Ends(i, [inv[i] EXCEPT !.counted = "success", !.response = response], out)
     ELSE Ends(i, [inv[i] EXCEPT !.counted = "success", !.response = response,
                                 !.raised = out],
               Caught(inv[i], out))
  /\ UNCHANGED <<settings, other_vars, now, session, credentials, rate_limiter, grants, calls>>

\* session.request returns a response, then response.text() raises
ReadBodyRaise(i, e) ==
  /\ inv[i].pc = "transport"
  /\ circuit_breaker' = CallSucceeded(circuit_breaker)
  /\ Ends(i, [inv[i] EXCEPT !.counted = "success", !.raised = Exc(e)],
          Caught(inv[i], Exc(e)))
  /\ UNCHANGED <<settings, other_vars, now, session, credentials, rate_limiter, grants, calls>>

Next ==
  \/ Tick
  \/ Enter
  \/ Exit
  \/ Expire
  \/ \E i \in Requests, r \in RefreshOutcomes : RequestStart(i, r)
  \/ \E i \in Requests, e \in TransportExceptions : TransportRaise(i, e)
  \/ \E i \in Requests, response \in Responses : Respond(i, response)
  \/ \E i \in Requests, e \in TransportExceptions : ReadBodyRaise(i, e)

Spec == Init /\ [][Next]_vars

\* ----------------------------------------------- the limiter on its own
\* rate_limiter.acquire() called directly, as a caller of the class does
Acquire ==
  /\ Len(calls) < MaxCalls
  /\ LET acq == acquire(rate_limiter, now) IN
     /\ rate_limiter' = acq.rl
     /\ grants' = IF acq.granted THEN grants + 1 ELSE grants
     /\ calls' = Append(calls, [at |-> now, granted |-> acq.granted])
  /\ UNCHANGED <<settings, other_vars, now, session, credentials, circuit_breaker, inv, last>>

\* time passes between two direct calls
Wait ==
  /\ now < MaxWait
  /\ now' = now + 1
  /\ UNCHANGED <<settings, other_vars, session, credentials, rate_limiter, circuit_breaker, inv, last, grants, calls>>

NextRateLimiter == Wait \/ Acquire

SpecRateLimiter == Init /\ [][NextRateLimiter]_vars

\* -------------------------------------------- one invocation at a time
\* a client constructed with any of the request timeouts, whose caller awaits each
\* invocation before making the next
InitSequential ==
  /\ settings \in {[DefaultSettings EXCEPT !.request_timeout = t] : t \in RequestTimeouts}
  /\ InitClient
  /\ InitOthers

NextSequential ==
  \/ Tick
  \/ Enter
  \/ Exit
  \/ Expire
  \/ \E i \in Requests, r \in RefreshOutcomes :
       (\A j \in Requests : inv[j].pc = "idle") /\ RequestStart(i, r)
  \/ \E i \in Requests, e \in TransportExceptions : TransportRaise(i, e)
  \/ \E i \in Requests, response \in Responses : Respond(i, response)
  \/ \E i \in Requests, e \in TransportExceptions : ReadBodyRaise(i, e)

SpecSequential == InitSequential /\ [][NextSequential]_vars

\* ------------------------------------------------------- _build_url alone
\* leading slashes tried in front of a path
MaxSlashes == 2
RECURSIVE Slashes(_)
Slashes(n) == IF n = 0 THEN EmptyText ELSE Slash \o Slashes(n - 1)

\* the paths _build_url is called with
Paths ==
  {Slashes(n) \o body :
     n \in 0..MaxSlashes,
     body \in {EnvironmentsProd, Tail(SlashOrganizationsAcmeApis), Organizations,
               OrganizationsxY, Apis, EmptyText}}

\* ApigeeClient._build_url
build_url(base_url, organization, path) ==
  LET stripped == lstrip(path, "/")
      qualified == IF ~startswith(stripped, OrganizationsSlash)
                   THEN OrganizationsSlash \o organization \o Slash \o stripped
                   ELSE stripped
  IN base_url \o Slash \o qualified

\* a client with any base URL and organization, and a _build_url call about to be made
InitBuildUrl ==
  /\ settings \in [request_timeout : {DefaultRequestTimeout},
                    base_url : {ApiExampleV1, HttpH},
                    organization : {Acme, EmptyText}]
  /\ InitClient
  /\ call \in {[fn |-> "_build_url", path |-> path, returned |-> FALSE, result |-> EmptyText] :
                 path \in Paths}
  /\ error = NoError
  /\ correlation_ids = << >>
  /\ log = << >>
  /\ repository = NewRepository
  /\ outcome = NoOutcome
  /\ tool = NoTool
  /\ sessions = NoSessions

\* self._build_url(path) returns
BuildUrl ==
  /\ call.fn = "_build_url"
  /\ ~call.returned
  /\ call' = [call EXCEPT !.returned = TRUE,
                          !.result = build_url(settings.base_url, settings.organization,
                                               call.path)]
  /\ UNCHANGED <<settings, tool, sessions, client_vars, error, correlation_ids, log, repository, outcome>>

NextBuildUrl == BuildUrl

SpecBuildUrl == InitBuildUrl /\ [][NextBuildUrl]_vars

\* ------------------------------------------------- the error taxonomy alone
\* AppErrors constructed one after the other
MaxErrors == 3

\* an optional argument: None, or a value
None == [some |-> FALSE]
Some(v) == [some |-> TRUE, value |-> v]
\* `details or {}`
DetailsOrEmpty(details) ==
  IF details.some /\ details.value /= EmptyDict THEN details.value ELSE EmptyDict

\* str(uuid.uuid4()): a value that was not drawn before, given how many were drawn
Uuids == <<"uuid-1", "uuid-2", "uuid-3", "uuid-4", "uuid-5">>
uuid4(drawn) == Uuids[drawn + 1]

\* `correlation_id or str(uuid.uuid4())`: None is "None"
CorrelationIdGivenMutant(correlation_id) == correlation_id /= "None"
CorrelationIdGiven(correlation_id) == correlation_id \notin {"None", ""}

\* AppError.__init__
AppErrorInit(code, status, details, correlation_id, drawn) ==
  [code |-> code, status |-> status, details |-> DetailsOrEmpty(details),
   correlation_id |-> IF CorrelationIdGiven(correlation_id) THEN correlation_id
                      ELSE uuid4(drawn),
   generated |-> ~CorrelationIdGiven(correlation_id)]

\* ValidationError.__init__: the code is a parameter
ValidationErrorInit(a, drawn) ==
  AppErrorInit(a.code, 422, a.details, a.correlation_id, drawn)
\* InvalidParameterError.__init__
InvalidParameterErrorInit(a, drawn) ==
  ValidationErrorInit(
    [a EXCEPT !.code = "INVALID_PARAMETER",
              !.details = Some(Update(DetailsOrEmpty(a.details),
                                      [parameter |-> a.parameter, reason |-> a.reason]))],
    drawn)
\* MissingParameterError.__init__
MissingParameterErrorInit(a, drawn) ==
  ValidationErrorInit(
    [a EXCEPT !.code = "MISSING_PARAMETER",
              !.details = Some(Update(DetailsOrEmpty(a.details),
                                      [parameter |-> a.parameter]))],
    drawn)
\* ExpiredParameterError.__init__
ExpiredParameterErrorInit(a, drawn) ==
  LET error_details == Update(DetailsOrEmpty(a.details), [parameter |-> a.parameter]) IN
  ValidationErrorInit(
    [a EXCEPT !.code = "EXPIRED_PARAMETER",
              !.details = Some(IF a.expired_at.some /\ a.expired_at.value /= ""
                               THEN Put(error_details, "expired_at", a.expired_at.value)
                               ELSE error_details)],
    drawn)
\* AuthenticationError.__init__
AuthenticationErrorInit(a, drawn) ==
  AppErrorInit("AUTHENTICATION_ERROR", 401, a.details, a.correlation_id, drawn)
\* AuthorizationError.__init__
AuthorizationErrorInit(a, drawn) ==
  LET error_details == DetailsOrEmpty(a.details) IN
  AppErrorInit("AUTHORIZATION_ERROR", 403,
               Some(IF a.resource.some /\ a.resource.value /= ""
                    THEN Put(error_details, "resource", a.resource.value)
                    ELSE error_details),
               a.correlation_id, drawn)
\* ResourceNotFoundError.__init__
ResourceNotFoundErrorInit(a, drawn) ==
  AppErrorInit("RESOURCE_NOT_FOUND", 404,
               Some(Update(DetailsOrEmpty(a.details),
                           [resource_type |-> a.resource_type,
                            resource_id |-> a.resource_id])),
               a.correlation_id, drawn)
\* ResourceAlreadyExistsError.__init__
ResourceAlreadyExistsErrorInit(a, drawn) ==
  AppErrorInit("RESOURCE_ALREADY_EXISTS", 409,
               Some(Update(DetailsOrEmpty(a.details),
                           [resource_type |-> a.resource_type,
                            resource_id |-> a.resource_id])),
               a.correlation_id, drawn)
\* TimeoutError.__init__
TimeoutErrorInit(a, drawn) ==
  LET error_details == Put(DetailsOrEmpty(a.details), "operation", a.operation) IN
  AppErrorInit("TIMEOUT_ERROR", 408,
               Some(IF a.timeout_seconds.some /\ TimeoutGiven(a.timeout_seconds.value)
                    THEN Put(error_details, "timeout_seconds", a.timeout_seconds.value)
                    ELSE error_details),
               a.correlation_id, drawn)
\* ExternalServiceError.__init__: the status is a parameter
ExternalServiceErrorInit(a, drawn) ==
  AppErrorInit("EXTERNAL_SERVICE_ERROR", a.status,
               Some(Put(DetailsOrEmpty(a.details), "service", a.service)),
               a.correlation_id, drawn)

Variants ==
  {"ValidationError", "InvalidParameterError", "MissingParameterError",
   "ExpiredParameterError", "AuthenticationError", "AuthorizationError",
   "ResourceNotFoundError", "ResourceAlreadyExistsError", "TimeoutError",
   "ExternalServiceError"}

\* the constructor of a variant called with arguments a
Construct(variant, a, drawn) ==
  CASE variant = "ValidationError" -> ValidationErrorInit(a, drawn)
    [] variant = "InvalidParameterError" -> InvalidParameterErrorInit(a, drawn)
    [] variant = "MissingParameterError" -> MissingParameterErrorInit(a, drawn)
    [] variant = "ExpiredParameterError" -> ExpiredParameterErrorInit(a, drawn)
    [] variant = "AuthenticationError" -> AuthenticationErrorInit(a, drawn)
    [] variant = "AuthorizationError" -> AuthorizationErrorInit(a, drawn)
    [] variant = "ResourceNotFoundError" -> ResourceNotFoundErrorInit(a, drawn)
    [] variant = "ResourceAlreadyExistsError" -> ResourceAlreadyExistsErrorInit(a, drawn)
    [] variant = "TimeoutError" -> TimeoutErrorInit(a, drawn)
    [] variant = "ExternalServiceError" -> ExternalServiceErrorInit(a, drawn)

\* a caller's details that use the keys the constructors write, and one of its own
CallerDetails ==
  [parameter |-> "from details", reason |-> "from details",
   resource_type |-> "from details", resource_id |-> "from details",
   operation |-> "from details", service |-> "from details", extra |-> "from details"]

\* the arguments a caller gives the constructor of a variant: the named arguments are
\* fixed, the optional ones are given or not, details is None, empty or CallerDetails,
\* correlation_id is None, empty, the caller's own or that of an error constructed before
ConstructorArgs(variant, ids) ==
  [parameter : {"p"}, reason : {"r"}, resource_type : {"team"}, resource_id : {"t1"},
   operation : {"op"}, service : {"apigee_api"},
   expired_at : IF variant = "ExpiredParameterError" THEN {None, Some("2024-01-01")}
                ELSE {None},
   resource : IF variant = "AuthorizationError" THEN {None, Some("apis")} ELSE {None},
   timeout_seconds : IF variant = "TimeoutError"
                     THEN {None, Some(0), Some(DefaultRequestTimeout)} ELSE {None},
   code : IF variant = "ValidationError" THEN {"VALIDATION_ERROR", "TEST_CODE"}
          ELSE {"VALIDATION_ERROR"},
   status : IF variant = "ExternalServiceError" THEN {502, 503, 429} ELSE {502},
   details : {None, Some(EmptyDict), Some(CallerDetails)},
   correlation_id : {"None", "", "req-1"} \cup ids]

\* the number of uuids drawn for the errors constructed so far
Drawn == Cardinality({k \in 1..Len(correlation_ids) : correlation_ids[k].generated})

\* an AppError of some variant is constructed
ConstructError(variant, a) ==
  /\ Len(correlation_ids) < MaxErrors
  /\ LET e == Construct(variant, a, Drawn) IN
     /\ error' = [variant |-> variant, args |-> a, code |-> e.code, status |-> e.status,
                  details |-> e.details, correlation_id |-> e.correlation_id]
     /\ correlation_ids' =
          Append(correlation_ids, [id |-> e.correlation_id, generated |-> e.generated])
  /\ UNCHANGED <<settings, tool, sessions, client_vars, call, log, repository, outcome>>

NextErrors ==
  \E variant \in Variants :
    \E a \in ConstructorArgs(variant, {correlation_ids[k].id : k \in 1..Len(correlation_ids)}) :
      ConstructError(variant, a)

SpecErrors == Init /\ [][NextErrors]_vars

\* ------------------------------------------------ redact_sensitive_fields alone
\* how deep the dicts and lists inside the data are nested
MaxDepth == 3

UpperCase ==
  <<"A", "B", "C", "D", "E", "F", "G", "H", "I", "J", "K", "L", "M", "N", "O", "P", "Q",
    "R", "S", "T", "U", "V", "W", "X", "Y", "Z">>
LowerCase ==
  <<"a", "b", "c", "d", "e", "f", "g", "h", "i", "j", "k", "l", "m", "n", "o", "p", "q",
    "r", "s", "t", "u", "v", "w", "x", "y", "z">>
\* ch.lower()
LowerChar(ch) ==
  IF \E n \in 1..Len(UpperCase) : UpperCase[n] = ch
  THEN LowerCase[CHOOSE n \in 1..Len(UpperCase) : UpperCase[n] = ch]
  ELSE ch
\* text.lower()
lower(text) == [n \in 1..Len(text) |-> LowerChar(text[n])]
\* pattern in text
Contains(text, pattern) ==
  \E n \in 1..(Len(text) - Len(pattern) + 1) :
    SubSeq(text, n, n + Len(pattern) - 1) = pattern

SENSITIVE_FIELD_PATTERNS ==
  {<<"t", "o", "k", "e", "n">>,
   <<"p", "a", "s", "s", "w", "o", "r", "d">>,
   <<"s", "e", "c", "r", "e", "t">>,
   <<"k", "e", "y">>,
   <<"c", "r", "e", "d", "e", "n", "t", "i", "a", "l">>,
   <<"a", "u", "t", "h">>,
   <<"b", "e", "a", "r", "e", "r">>,
   <<"a", "p", "i", "_", "k", "e", "y">>,
   <<"a", "p", "i", "k", "e", "y">>}

\* any(pattern in key.lower() for pattern in SENSITIVE_FIELD_PATTERNS)
is_sensitive(key) == \E pattern \in SENSITIVE_FIELD_PATTERNS : Contains(lower(key), pattern)

\* a value: its type and what it holds (a dict: keys to values, a list: its items)
Str(v) == <<"str", v>>
Number(v) == <<"int", v>>
Dict(d) == <<"dict", d>>
List(items) == <<"list", items>>
TypeOf(value) == value[1]
Held(value) == value[2]
REDACTED == Str("***REDACTED***")

\* redact_sensitive_fields(data), data the dict itself
RECURSIVE redact_sensitive_fields(_)
redact_sensitive_fields(data) ==
  [key \in DOMAIN data |->
     LET value == data[key] IN
     IF is_sensitive(key) THEN REDACTED
     ELSE IF TypeOf(value) = "dict" THEN Dict(redact_sensitive_fields(Held(value)))
     ELSE IF TypeOf(value) = "list"
     THEN List([n \in 1..Len(Held(value)) |->
                  LET item == Held(value)[n] IN
                  IF TypeOf(item) = "dict" THEN Dict(redact_sensitive_fields(Held(item)))
                  ELSE item])
     ELSE value]

\* the keys used: "name", "id", "Password", "monkey"
Keys ==
  {<<"n", "a", "m", "e">>, <<"i", "d">>,
   <<"P", "a", "s", "s", "w", "o", "r", "d">>, <<"m", "o", "n", "k", "e", "y">>}
Scalars == {Str("s3cret"), Number(7)}
\* {key: value}
Single(key, value) == [k \in {key} |-> value]
\* the dicts with one key and a value among vs
DictsOver(vs) == {Single(key, value) : key \in Keys, value \in vs}
\* the values nested at most depth deep: scalars, dicts of one key or of two keys with
\* scalar values, lists of one item
RECURSIVE Values(_)
Values(depth) ==
  IF depth = 0 THEN Scalars
  ELSE LET inner == Values(depth - 1) IN
       inner
         \cup {Dict(d) : d \in DictsOver(inner)}
         \cup {List(<<value>>) : value \in inner}
         \cup {Dict([k \in {k1, k2} |-> Str("s3cret")]) : k1 \in Keys, k2 \in Keys}

\* a call of redact_sensitive_fields about to be made
InitRedact ==
  /\ settings = DefaultSettings
  /\ InitClient
  /\ call \in {[fn |-> "redact_sensitive_fields", data |-> data, returned |-> FALSE,
                 result |-> EmptyDict] : data \in DictsOver(Values(MaxDepth))}
  /\ error = NoError
  /\ correlation_ids = << >>
  /\ log = << >>
  /\ repository = NewRepository
  /\ outcome = NoOutcome
  /\ tool = NoTool
  /\ sessions = NoSessions

\* redact_sensitive_fields(data) returns
Redact ==
  /\ call.fn = "redact_sensitive_fields"
  /\ ~call.returned
  /\ call' = [call EXCEPT !.returned = TRUE, !.result = redact_sensitive_fields(call.data)]
  /\ UNCHANGED <<settings, tool, sessions, client_vars, error, correlation_ids, log, repository, outcome>>

NextRedact == Redact

SpecRedact == InitRedact /\ [][NextRedact]_vars

\* ----------------------------------------------------------- the log calls
\* log events followed
MaxEvents == 1
\* the dicts handed to the functions that log
Mappings == DictsOver(Values(1))

\* logger.<level>(event, <keyword>=mapping): the event as the logger receives it, with the
\* dict its caller was given
LogEvent(event, given, mapping) == [event |-> event, given |-> given, mapping |-> mapping]

\* format_error_response(error, operation) for an AppError with these details
FormatErrorResponse(details) ==
  /\ Len(log) < MaxEvents
  /\ log' = Append(log, LogEvent("app_error_occurred", details,
                                 redact_sensitive_fields(details)))
  /\ UNCHANGED <<settings, tool, sessions, client_vars, call, error, correlation_ids, repository, outcome>>

\* _request(method, path, params) for a request that passed its guards:
\* logger.info("api_request", method=method, url=url, params=params)
ApiRequestLog(params) ==
  /\ Len(log) < MaxEvents
  /\ log' = Append(log, LogEvent("api_request", params, params))
  /\ UNCHANGED <<settings, tool, sessions, client_vars, call, error, correlation_ids, repository, outcome>>

\* the wrapper of validate_parameters called with these arguments
ValidateParameters(arguments) ==
  /\ Len(log) < MaxEvents
  /\ log' = Append(log, LogEvent("validating_parameters", arguments,
                                 redact_sensitive_fields(arguments)))
  /\ UNCHANGED <<settings, tool, sessions, client_vars, call, error, correlation_ids, repository, outcome>>

NextLogging ==
  \/ \E details \in Mappings : FormatErrorResponse(details)
  \/ \E params \in Mappings : ApiRequestLog(params)
  \/ \E arguments \in Mappings : ValidateParameters(arguments)

SpecLogging == Init /\ [][NextLogging]_vars

\* ------------------------------------------------ InMemoryTeamRepository alone
\* the names callers use and the values str(uuid.uuid4()) can take
TeamNames == {"alpha", "beta"}
TeamIds == {"id-1", "id-2", "id-3"}
\* TeamCreate: name, description, members
TeamCreates ==
  [name : TeamNames, description : {Some("first")}, members : {<<"a@x">>}]
\* TeamUpdate: description and members, each optional
TeamUpdates ==
  [description : {None, Some("second")}, members : {None, Some(<<"b@x">>)}]

\* del d[k]
RemoveMutant(d, k) == d
Remove(d, k) == [j \in DOMAIN d \ {k} |-> d[j]]

\* InMemoryTeamRepository.exists_by_name
exists_by_nameMutant(repo, name) == name \in DOMAIN repo.teams
exists_by_name(repo, name) == name \in DOMAIN repo.teams_by_name

\* InMemoryTeamRepository.get_by_id
get_by_id(repo, team_id) ==
  IF team_id \in DOMAIN repo.teams THEN Some(repo.teams[team_id]) ELSE None

\* InMemoryTeamRepository.get_by_name
get_by_nameMutant(repo, name) == get_by_id(repo, name)
get_by_name(repo, name) ==
  IF name \in DOMAIN repo.teams_by_name
  THEN get_by_id(repo, repo.teams_by_name[name])
  ELSE None

\* what an operation did: its arguments, the repository it found, what it returned or
\* the exception it raised
Outcome(op, args, before, returned, raised) ==
  [op |-> op, args |-> args, before |-> before, returned |-> returned, raised |-> raised]

\* the values datetime.now(timezone.utc) can take
Instants == {"t1", "t2"}

\* team.model_copy(update=updated_fields), with the fields update() collects: description
\* and members when they are not None, and updated_at
model_copyMutant(team, team_data, instant) ==
  [team EXCEPT !.description = team_data.description,
               !.members = IF team_data.members.some THEN team_data.members.value ELSE @,
               !.updated_at = instant]
model_copy(team, team_data, instant) ==
  [team EXCEPT !.description = IF team_data.description.some
                               THEN team_data.description ELSE @,
               !.members = IF team_data.members.some THEN team_data.members.value ELSE @,
               !.updated_at = instant]

\* InMemoryTeamRepository.create, with team_id the value of str(uuid.uuid4()), a value no
\* stored team has, and instant the value of datetime.now(timezone.utc)
Create(team_data, team_id, instant) ==
  /\ team_id \notin DOMAIN repository.teams
  /\ IF exists_by_name(repository, team_data.name)
     THEN /\ outcome' = Outcome("create", team_data, repository, None,
                                "TeamAlreadyExistsError")
          /\ UNCHANGED repository
     ELSE LET team == [id |-> team_id, name |-> team_data.name,
                       description |-> team_data.description,
                       members |-> team_data.members,
                       created_at |-> instant, updated_at |-> instant]
          IN /\ repository' =
                  [teams |-> Put(repository.teams, team_id, team),
                   teams_by_name |-> Put(repository.teams_by_name, team_data.name, team_id)]
             /\ outcome' = Outcome("create", team_data, repository, Some(team), "none")
  /\ UNCHANGED <<settings, tool, sessions, client_vars, call, error, correlation_ids, log>>

\* InMemoryTeamRepository.update
UpdateTeam(team_id, team_data, instant) ==
  /\ LET found == get_by_id(repository, team_id)
         args == [team_id |-> team_id, team_data |-> team_data]
     IN
     IF ~found.some
     THEN /\ outcome' = Outcome("update", args, repository, None, "TeamNotFoundError")
          /\ UNCHANGED repository
     ELSE LET updated_team == model_copy(found.value, team_data, instant)
          IN /\ repository' = [repository EXCEPT
                                 !.teams = Put(repository.teams, team_id, updated_team)]
             /\ outcome' = Outcome("update", args, repository, Some(updated_team), "none")
  /\ UNCHANGED <<settings, tool, sessions, client_vars, call, error, correlation_ids, log>>

\* InMemoryTeamRepository.delete
DeleteTeam(team_id) ==
  /\ LET found == get_by_id(repository, team_id) IN
     IF ~found.some
     THEN /\ outcome' = Outcome("delete", team_id, repository, Some(FALSE), "none")
          /\ UNCHANGED repository
     ELSE /\ repository' =
               [teams |-> Remove(repository.teams, team_id),
                teams_by_name |-> Remove(repository.teams_by_name, found.value.name)]
          /\ outcome' = Outcome("delete", team_id, repository, Some(TRUE), "none")
  /\ UNCHANGED <<settings, tool, sessions, client_vars, call, error, correlation_ids, log>>

\* a caller reads a team by its id
GetById(team_id) ==
  /\ outcome' = Outcome("get_by_id", team_id, repository, get_by_id(repository, team_id),
                        "none")
  /\ UNCHANGED <<settings, tool, sessions, client_vars, call, error, correlation_ids, log, repository>>

\* a caller reads a team by its name
GetByName(name) ==
  /\ outcome' = Outcome("get_by_name", name, repository, get_by_name(repository, name),
                        "none")
  /\ UNCHANGED <<settings, tool, sessions, client_vars, call, error, correlation_ids, log, repository>>

NextTeams ==
  \/ \E team_data \in TeamCreates, team_id \in TeamIds, instant \in Instants :
       Create(team_data, team_id, instant)
  \/ \E team_id \in TeamIds, team_data \in TeamUpdates, instant \in Instants :
       UpdateTeam(team_id, team_data, instant)
  \/ \E team_id \in TeamIds : DeleteTeam(team_id)
  \/ \E team_id \in TeamIds : GetById(team_id)
  \/ \E name \in TeamNames : GetByName(name)

SpecTeams == Init /\ [][NextTeams]_vars

\* ------------------------------------- teams.repository.InMemoryTeamRepository alone
\* team names: "a", "b" and the name "a b", which validate_name refuses
PackageNames == {<<"a">>, <<"b">>, <<"a", " ", "b">>}
\* the values f"team-{uuid4().hex[:12]}" can take
PackageTeamIds == {"team-1", "team-2"}

\* allowed_chars in Team.validate_name
allowed_chars ==
  {LowerCase[n] : n \in 1..Len(LowerCase)} \cup {UpperCase[n] : n \in 1..Len(UpperCase)}
    \cup {"0", "1", "2", "3", "4", "5", "6", "7", "8", "9"} \cup {"-", "_"}
\* not value.strip(): only whitespace, or nothing
Blank(value) == \A n \in 1..Len(value) : value[n] \in {" ", "\t", "\n"}
\* Team.validate_name does not raise
NameValid(value) ==
  /\ ~Blank(value)
  /\ \A n \in 1..Len(value) : value[n] \in allowed_chars
\* Team.validate_members does not raise
MembersValid(value) ==
  \A n \in 1..Len(value) : Contains(value[n], <<"@">>) /\ Contains(value[n], <<".">>)
\* Team(...) does not raise pydantic's ValidationError
TeamValid(name, members) == NameValid(name) /\ MembersValid(members)

\* InMemoryTeamRepository.__init__: no team, no name
InitTeamsPackage ==
  /\ settings = DefaultSettings
  /\ InitClient
  /\ call = NoCall
  /\ error = NoError
  /\ correlation_ids = << >>
  /\ log = << >>
  /\ repository = [teams |-> EmptyDict, name_index |-> EmptyDict]
  /\ outcome = NoOutcome
  /\ tool = NoTool
  /\ sessions = NoSessions

\* `value if value is not None else default`
OrElse(optional, default) == IF optional.some THEN optional.value ELSE default

\* InMemoryTeamRepository.create_team, with team_id a value no stored team has
create_team(name, description, members, team_id, instant) ==
  /\ team_id \notin DOMAIN repository.teams
  /\ LET args == [name |-> name, description |-> description, members |-> members]
         team == [id |-> team_id, name |-> name, description |-> description,
                  members |-> OrElse(members, << >>),
                  created_at |-> instant, updated_at |-> instant]
     IN
     IF name \in DOMAIN repository.name_index
     THEN /\ outcome' = Outcome("create_team", args, repository, None,
                                "TeamAlreadyExistsError")
          /\ UNCHANGED repository
     ELSE IF ~TeamValid(team.name, team.members)
     THEN /\ outcome' = Outcome("create_team", args, repository, None,
                                "pydantic.ValidationError")
          /\ UNCHANGED repository
     ELSE /\ repository' = [teams |-> Put(repository.teams, team_id, team),
                            name_index |-> Put(repository.name_index, name, team_id)]
          /\ outcome' = Outcome("create_team", args, repository, Some(team), "none")
  /\ UNCHANGED <<settings, tool, sessions, client_vars, call, error, correlation_ids, log>>

\* InMemoryTeamRepository.update_team: the name index is rewritten before the updated
\* Team is constructed and validated
update_team(team_id, name, description, members, instant) ==
  /\ LET args == [team_id |-> team_id, name |-> name, description |-> description,
                  members |-> members]
     IN
     IF team_id \notin DOMAIN repository.teams
     THEN /\ outcome' = Outcome("update_team", args, repository, None, "TeamNotFoundError")
          /\ UNCHANGED repository
     ELSE
       LET team == repository.teams[team_id]
           renamed == name.some /\ name.value /= team.name
       IN
       IF renamed /\ name.value \in DOMAIN repository.name_index
       THEN /\ outcome' = Outcome("update_team", args, repository, None,
                                  "TeamAlreadyExistsError")
            /\ UNCHANGED repository
       ELSE IF renamed /\ team.name \notin DOMAIN repository.name_index
       THEN \* del self._name_index[team.name]
            /\ outcome' = Outcome("update_team", args, repository, None, "KeyError")
            /\ UNCHANGED repository
       ELSE
         LET name_index == IF renamed
                           THEN Put(Remove(repository.name_index, team.name),
                                    name.value, team_id)
                           ELSE repository.name_index
             updated_team == [id |-> team.id,
                              name |-> OrElse(name, team.name),
                              description |-> OrElse(description, team.description),
                              members |-> OrElse(members, team.members),
                              created_at |-> team.created_at,
                              updated_at |-> instant]
         IN
         IF ~TeamValid(updated_team.name, updated_team.members)
         THEN /\ repository' = [repository EXCEPT !.name_index = name_index]
              /\ outcome' = Outcome("update_team", args, repository, None,
                                    "pydantic.ValidationError")
         ELSE /\ repository' = [teams |-> Put(repository.teams, team_id, updated_team),
                                name_index |-> name_index]
              /\ outcome' = Outcome("update_team", args, repository, Some(updated_team),
                                    "none")
  /\ UNCHANGED <<settings, tool, sessions, client_vars, call, error, correlation_ids, log>>

\* InMemoryTeamRepository.delete_team: the team is removed, then its name
delete_team(team_id) ==
  /\ IF team_id \notin DOMAIN repository.teams
     THEN /\ outcome' = Outcome("delete_team", team_id, repository, None,
                                "TeamNotFoundError")
          /\ UNCHANGED repository
     ELSE LET team == repository.teams[team_id] IN
          IF team.name \notin DOMAIN repository.name_index
          THEN \* del self._name_index[team.name]
               /\ repository' = [repository EXCEPT
                                   !.teams = Remove(repository.teams, team_id)]
               /\ outcome' = Outcome("delete_team", team_id, repository, None, "KeyError")
          ELSE /\ repository' = [teams |-> Remove(repository.teams, team_id),
                                 name_index |-> Remove(repository.name_index, team.name)]
               /\ outcome' = Outcome("delete_team", team_id, repository, None, "none")
  /\ UNCHANGED <<settings, tool, sessions, client_vars, call, error, correlation_ids, log>>

NextTeamsPackage ==
  \/ \E name \in PackageNames, team_id \in PackageTeamIds, instant \in Instants :
       \* the member "a@b.c"
       create_team(name, "", Some(<<(<<"a", "@", "b", ".", "c">>)>>), team_id, instant)
  \/ \E team_id \in PackageTeamIds,
        name \in {None} \cup {Some(n) : n \in PackageNames},
        \* the member "ab", which validate_members refuses
        members \in {None, Some(<<(<<"a", "b">>)>>)}, instant \in Instants :
       update_team(team_id, name, Some("second"), members, instant)
  \/ \E team_id \in PackageTeamIds : delete_team(team_id)

SpecTeamsPackage == InitTeamsPackage /\ [][NextTeamsPackage]_vars

\* --------------------------------------------------- ApigeeClient scopes alone
\* scopes entered on one client instance
MaxScopes == 3
\* the client instances
Clients == {"c1", "c2"}

\* ApigeeClient.__init__: self.session = None, no session created
InitScopes ==
  /\ settings = DefaultSettings
  /\ InitClient
  /\ call = NoCall
  /\ error = NoError
  /\ correlation_ids = << >>
  /\ log = << >>
  /\ repository = NewRepository
  /\ outcome = NoOutcome
  /\ tool = NoTool
  /\ sessions = [c \in Clients |->
                   [created |-> << >>, current |-> 0, entered |-> 0, left |-> "none"]]

\* ApigeeClient.__aenter__ on client c: a new ClientSession is created and assigned to
\* self.session, whatever self.session was
AEnter(c) ==
  /\ Len(sessions[c].created) < MaxScopes
  /\ sessions' = [sessions EXCEPT ![c] =
                    [@ EXCEPT !.created = Append(@, "open"),
                              !.current = Len(sessions[c].created) + 1,
                              !.entered = @ + 1]]
  /\ UNCHANGED <<settings, client_vars, call, error, correlation_ids, log, repository,
                 outcome, tool>>

\* ApigeeClient.__aexit__ on client c, on the normal path or with an exception of the
\* body: if self.session, it is closed
AExit(c, path) ==
  /\ sessions[c].entered > 0
  /\ sessions' = [sessions EXCEPT ![c] =
                    [@ EXCEPT !.created = IF sessions[c].current /= 0
                                          THEN [@ EXCEPT ![sessions[c].current] = "closed"]
                                          ELSE @,
                              !.entered = @ - 1,
                              !.left = path]]
  /\ UNCHANGED <<settings, client_vars, call, error, correlation_ids, log, repository,
                 outcome, tool>>

NextScopes ==
  \/ \E c \in Clients : AEnter(c)
  \/ \E c \in Clients, path \in {"return", "raise"} : AExit(c, path)

SpecScopes == InitScopes /\ [][NextScopes]_vars

\* ----------------------------------------------------------------- call_tool
\* the names bound in the namespace of server.py: its imports, its module-level
\* assignments and its functions
ServerNames ==
  {"asyncio", "json", "Any", "Dict", "List", "Server", "stdio_server", "Tool",
   "TextContent", "ApigeeClient", "get_settings", "InMemoryTeamRepository",
   "configure_logging", "get_logger", "ParameterValidator", "logger", "app",
   "team_repository", "create_tool_definition", "format_api_response",
   "handle_api_error", "list_tools", "call_tool", "main"}
\* evaluating the name does not raise NameError
Bound(name) == name \in ServerNames

\* "id-1", "id-2"
Id1Text == <<"i", "d", "-", "1">>
Id2Text == <<"i", "d", "-", "2">>
\* the str a text is
RECURSIVE Join(_)
Join(text) == IF text = << >> THEN "" ELSE text[1] \o Join(Tail(text))

\* call_tool(name, arguments)
ToolCall(name, arguments) == [name |-> name, arguments |-> arguments]
\* the calls made: a tool that makes an API request, the team tools and a name that is no
\* tool, each with and without the argument it reads, with a blank team_id, and with the
\* id of a team that is stored or not
ToolCalls ==
  {ToolCall("get-environment", EmptyDict),
   ToolCall("get-environment", [environment |-> <<"p", "r", "o", "d">>]),
   ToolCall("list-teams", EmptyDict),
   ToolCall("get-team", EmptyDict),
   ToolCall("get-team", [team_id |-> Id1Text]),
   ToolCall("create-team", EmptyDict),
   ToolCall("create-team", [name |-> <<"a", "l", "p", "h", "a">>]),
   ToolCall("update-team", [team_id |-> Id1Text]),
   ToolCall("delete-team", EmptyDict),
   ToolCall("delete-team", [team_id |-> Space]),
   ToolCall("delete-team", [team_id |-> Id1Text]),
   ToolCall("delete-team", [team_id |-> Id2Text]),
   ToolCall("no-such-tool", EmptyDict)}

\* tool calls followed: enough for a shared breaker to open and a shared bucket to empty
MaxToolCalls == 1 + (IF failure_threshold >= requests_per_window
                     THEN failure_threshold ELSE requests_per_window)

\* arguments.get(key)
Get(arguments, key) == IF key \in DOMAIN arguments THEN Some(arguments[key]) ELSE None

\* ParameterValidator.validate_non_empty_string does not raise: a str with a character
\* that is not whitespace
NonEmptyString(value) == value.some /\ ~Blank(value.value)

\* format_api_response(data, operation)
Response(operation, data) ==
  [kind |-> "response", operation |-> operation, data |-> data,
   exception |-> "none", first |-> "none"]
\* handle_api_error(error, operation): return format_error_response(...)
handle_api_error(first) ==
  IF Bound("format_error_response")
  THEN [kind |-> "error_response", operation |-> "none", data |-> EmptyDict,
        exception |-> "none", first |-> first]
  ELSE [kind |-> "raised", operation |-> "none", data |-> EmptyDict,
        exception |-> "NameError", first |-> first]
\* an exception raised inside `async with ApigeeClient(settings) as client`: the except
\* clause of a team branch, when it names an unbound class, raises NameError in its
\* place, and `except Exception` hands whichever it is to handle_api_error
Fails(first) == handle_api_error(first)

\* the branches of call_tool that end without an API request: the repository after the
\* call, what the caller receives, and whether the team named was stored
Branch(repo, result, stored) == [repo |-> repo, result |-> result, stored |-> stored]

\* elif name == "get-team"
get_team_tool(arguments, repo) ==
  LET team_id == Get(arguments, "team_id") IN
  IF ~NonEmptyString(team_id)
  THEN Branch(repo, Fails("InvalidParameterError"), FALSE)
  ELSE IF ~get_by_id(repo, Join(team_id.value)).some
  THEN Branch(repo, Fails("ResourceNotFoundError"), FALSE)
  ELSE Branch(repo,
              Response("Get Team: " \o Join(team_id.value),
                       get_by_id(repo, Join(team_id.value)).value),
              TRUE)

\* elif name == "delete-team": the value delete() returns is dropped
delete_team_toolMutant(arguments, repo) ==
  LET team_id == Get(arguments, "team_id") IN
  IF ~NonEmptyString(team_id)
  THEN Branch(repo, Fails("InvalidParameterError"), FALSE)
  ELSE IF ~get_by_id(repo, Join(team_id.value)).some
  THEN Branch(repo, Fails("ResourceNotFoundError"), FALSE)
  ELSE Branch([teams |-> Remove(repo.teams, Join(team_id.value)),
               teams_by_name |-> Remove(repo.teams_by_name,
                                        repo.teams[Join(team_id.value)].name)],
              Response("Delete Team: " \o Join(team_id.value),
                       [success |-> TRUE, team_id |-> Join(team_id.value)]),
              TRUE)
delete_team_tool(arguments, repo) ==
  LET team_id == Get(arguments, "team_id") IN
  IF ~NonEmptyString(team_id)
  THEN Branch(repo, Fails("InvalidParameterError"), FALSE)
  ELSE LET id == Join(team_id.value)
           found == get_by_id(repo, id)
       IN Branch(IF found.some
                 THEN [teams |-> Remove(repo.teams, id),
                       teams_by_name |-> Remove(repo.teams_by_name, found.value.name)]
                 ELSE repo,
                 Response("Delete Team: " \o id, [success |-> TRUE, team_id |-> id]),
                 found.some)

\* elif name == "create-team": TeamCreate is not bound in server.py
create_team_tool(arguments, repo) ==
  IF ~NonEmptyString(Get(arguments, "name"))
  THEN Branch(repo, Fails("InvalidParameterError"), FALSE)
  ELSE Branch(repo, Fails("NameError"), FALSE)

\* elif name == "update-team": TeamUpdate is not bound in server.py
update_team_tool(arguments, repo) ==
  IF ~NonEmptyString(Get(arguments, "team_id"))
  THEN Branch(repo, Fails("InvalidParameterError"), FALSE)
  ELSE Branch(repo, Fails("NameError"), get_by_id(repo, Join(arguments.team_id)).some)

\* call_tool for a call that makes no API request
Dispatch(name, arguments, repo) ==
  IF name = "get-environment" THEN Branch(repo, Fails("KeyError"), FALSE)
  ELSE IF name = "list-teams" THEN
    \* {"teams": teams_data}, the stored teams given here by their ids
    Branch(repo, Response("List Teams", [teams |-> repo.teams]), FALSE)
  ELSE IF name = "get-team" THEN get_team_tool(arguments, repo)
  ELSE IF name = "create-team" THEN create_team_tool(arguments, repo)
  ELSE IF name = "update-team" THEN update_team_tool(arguments, repo)
  ELSE IF name = "delete-team" THEN delete_team_tool(arguments, repo)
  ELSE Branch(repo, Fails("ValueError"), FALSE)

\* the call makes an API request: get-environment with arguments["environment"]
MakesRequest(name, arguments) ==
  name = "get-environment" /\ "environment" \in DOMAIN arguments

\* ApigeeClient(settings) in call_tool: a limiter and a breaker of the new client's own,
\* whatever the client of the call before held
ApigeeClientMutant(rl, cb, t) == [rate_limiter |-> rl, circuit_breaker |-> cb]
ApigeeClient(rl, cb, t) ==
  [rate_limiter |-> NewRateLimiter(t), circuit_breaker |-> NewCircuitBreaker]

\* call_tool(name, arguments) up to its first suspension point: the settings are read, a
\* client is constructed and its scope entered; a call that makes no API request runs to
\* its end, the scope is left and the caller receives the result
CallTool(name, arguments) ==
  /\ tool.pc /= "request"
  /\ tool.count < MaxToolCalls
  /\ LET client == ApigeeClient(rate_limiter, circuit_breaker, now)
         branch == Dispatch(name, arguments, repository)
     IN
     /\ rate_limiter' = client.rate_limiter
     /\ circuit_breaker' = client.circuit_breaker
     /\ credentials' = [configured |-> credentials.configured, token |-> "none",
                        expired |-> FALSE]
     /\ grants' = 0
     /\ inv' = [i \in Requests |-> Idle]
     /\ last' = Idle
     /\ IF MakesRequest(name, arguments)
        THEN /\ session' = "open"
             /\ tool' = [tool EXCEPT !.pc = "request", !.name = name,
                                      !.arguments = arguments, !.result = NoToolResult,
                                      !.count = @ + 1, !.stored = FALSE]
             /\ UNCHANGED repository
        ELSE /\ session' = "closed"
             /\ tool' = [tool EXCEPT !.pc = "done", !.name = name,
                                      !.arguments = arguments, !.result = branch.result,
                                      !.count = @ + 1, !.stored = branch.stored]
             /\ repository' = branch.repo
  /\ UNCHANGED <<settings, now, calls, call, error, correlation_ids, log, outcome,
                 sessions>>

\* client.get(f"environments/{env}"): _request up to its first suspension point
ToolRequest(r) ==
  /\ tool.pc = "request"
  /\ last.pc = "idle"
  \* f"environments/{env}"
  /\ <<"e", "n", "v", "i", "r", "o", "n", "m", "e", "n", "t", "s", "/">>
       \o tool.arguments.environment = Args["r1"].path
  /\ RequestStart("r1", r)

\* the request of the call ends while the call waits for it
ToolTransport ==
  /\ tool.pc = "request"
  /\ \/ \E e \in TransportExceptions : TransportRaise("r1", e)
     \/ \E response \in Responses : Respond("r1", response)
     \/ \E e \in TransportExceptions : ReadBodyRaise("r1", e)

\* client.get returned or raised: the scope is left (the session is closed), then the data
\* is formatted or the exception is handed to handle_api_error
ToolReturn ==
  /\ tool.pc = "request"
  /\ last.pc = "done"
  /\ session' = "closed"
  /\ tool' = [tool EXCEPT
               !.pc = "done",
               !.result = IF last.result.kind = "success"
                          THEN Response("Get Environment: " \o Join(tool.arguments.environment),
                                        last.result.data)
                          ELSE Fails(last.result.kind),
               !.failed = IF last.counted = "failure" THEN @ + 1 ELSE @]
  /\ UNCHANGED <<settings, now, credentials, rate_limiter, circuit_breaker, inv, last,
                 grants, calls, call, error, correlation_ids, log, repository, outcome,
                 sessions>>

\* the module's team_repository used directly, as an importer of server.py can: a team
\* is stored
StoreTeam ==
  /\ tool.pc /= "request"
  /\ \E team_data \in TeamCreates, team_id \in {"id-1", "id-2"} :
       Create(team_data, team_id, "t1")

NextServer ==
  \/ Tick
  \/ \E c \in ToolCalls : CallTool(c.name, c.arguments)
  \/ \E r \in RefreshOutcomes : ToolRequest(r)
  \/ ToolTransport
  \/ ToolReturn
  \/ StoreTeam

SpecServer == Init /\ [][NextServer]_vars

\* ------------------------------------------------------------ with_retry alone
\* the largest max_attempts tried
MaxAttempts == 3

\* tenacity.stop_after_attempt(max_attempts), asked after an attempt has failed
stop_after_attemptMutant(attempt_number, max_attempts) == attempt_number > max_attempts
stop_after_attempt(attempt_number, max_attempts) == attempt_number >= max_attempts
\* tenacity.retry_if_exception_type(exceptions)
retry_if_exception_type(exception, exceptions) == exception \in exceptions

\* a function decorated with with_retry(max_attempts, exceptions=...) is called
InitRetry ==
  /\ settings = DefaultSettings
  /\ InitClient
  /\ call \in {[fn |-> "with_retry", max_attempts |-> n, exceptions |-> e, pc |-> "attempt",
                 history |-> << >>, result |-> "none"] :
                 n \in 0..MaxAttempts, e \in {{"ValueError"}, {"ValueError", "KeyError"}}}
  /\ error = NoError
  /\ correlation_ids = << >>
  /\ log = << >>
  /\ repository = NewRepository
  /\ outcome = NoOutcome
  /\ tool = NoTool
  /\ sessions = NoSessions

\* one attempt: the wrapper awaits the function.  A returned value ends the call.  An
\* exception in `exceptions` is logged by the wrapper and raised again; tenacity then
\* retries it unless stop_after_attempt says stop, and re-raises the last one (reraise=True).
\* Any other exception is not retried
RetryAttempt(o) ==
  /\ call.fn = "with_retry"
  /\ call.pc = "attempt"
  /\ LET history == Append(call.history, o)
         attempt_number == Len(history)
     IN
     IF o = "return"
     THEN /\ call' = [call EXCEPT !.history = history, !.pc = "done", !.result = "returned"]
          /\ UNCHANGED log
     ELSE /\ log' = IF o \in call.exceptions
                    THEN Append(log, LogEvent("retry_attempt", EmptyDict, EmptyDict))
                    ELSE log
          /\ IF /\ retry_if_exception_type(o, call.exceptions)
                /\ ~stop_after_attempt(attempt_number, call.max_attempts)
             THEN call' = [call EXCEPT !.history = history, !.pc = "wait"]
             ELSE call' = [call EXCEPT !.history = history, !.pc = "done", !.result = o]
  /\ UNCHANGED <<settings, tool, sessions, client_vars, error, correlation_ids, repository,
                 outcome>>

\* the sleep of wait_exponential(multiplier=1, min=1, max=60) ends
RetryWake ==
  /\ call.fn = "with_retry"
  /\ call.pc = "wait"
  /\ call' = [call EXCEPT !.pc = "attempt"]
  /\ UNCHANGED <<settings, tool, sessions, client_vars, error, correlation_ids, log,
                 repository, outcome>>

NextRetry ==
  \/ \E o \in {"return", "ValueError", "KeyError"} : RetryAttempt(o)
  \/ RetryWake

\* every invocation of the function ends and every sleep ends
SpecRetry == InitRetry /\ [][NextRetry]_vars /\ WF_vars(NextRetry)

\* ------------------------------------------------------------------ claims
\* the breaker is OPEN and its recovery timeout has elapsed (HALF_OPEN on the next attempt)
OpenElapsed ==
  circuit_breaker.state = "open" /\ now - circuit_breaker.opened >= recovery_timeout

\* a breaker-wrapped call raises in this step: the invocation ends with a failure recorded
\* (every recorded failure changes the breaker's failure count)
WrappedCallFails ==
  circuit_breaker' /= circuit_breaker /\ last'.counted = "failure"

\* a breaker-wrapped call returns in this step: an invocation leaves the transport with a
\* success recorded
WrappedCallReturns ==
  /\ \E i \in Requests : inv[i].pc = "transport" /\ inv'[i].pc = "idle"
  /\ last'.counted = "success"

\* an invocation reaches the breaker in this step: it enters the transport, or it ends
\* having got its token and its credentials
ReachesBreaker ==
  \/ \E i \in Requests : inv[i].pc = "idle" /\ inv'[i].pc = "transport"
  \/ /\ \A i \in Requests : inv'[i].pc = inv[i].pc
     /\ grants' = grants + 1
     /\ last'.result.kind /= "AuthenticationError"

\* C1: while the breaker is OPEN and the recovery timeout has not elapsed, a _request
\* invocation ends in an error at once and session.request is not invoked for it.
C1_FailFastWhileOpen ==
  /\ \A i \in Requests : inv[i].pc = "transport" => inv[i].breaker_at_call /= "open"
  /\ (last.pc = "done" /\ last.breaker_at_call = "open") =>
       /\ IsError(last.result)
       /\ last.transport_calls = 0
       /\ last.counted = "none"

\* an invocation that got its token and its credentials was rejected by the open breaker
C1_Witness ==
  /\ last.pc = "done"
  /\ last.breaker_at_call = "open"
  /\ last.result.error_type = "CircuitBreakerError"
  /\ last.transport_calls = 0

C3_ErrorAfterTransportCountsAsFailure ==
  (last.pc = "done" /\ IsError(last.result) /\ last.transport_calls = 1) =>
    last.counted = "failure"

\* C4: at most one invocation admitted as the HALF_OPEN trial is at the transport before
\* the outcome of the trial is recorded.
C4_OneTrialInHalfOpen ==
  \A i, j \in Requests :
    (/\ inv[i].pc = "transport" /\ inv[i].breaker_at_call = "half_open"
     /\ inv[j].pc = "transport" /\ inv[j].breaker_at_call = "half_open") => i = j

\* C5: the limiter's tokens stay between 0 and the capacity.
C5_TokensWithinCapacity ==
  /\ rate_limiter.tokens >= 0
  /\ rate_limiter.tokens <= requests_per_window * window_seconds

\* a rejected acquisition left a fraction of a token in a bucket that was refilled since
C5_Witness ==
  /\ last.pc = "done"
  /\ last.result.status = 429
  /\ rate_limiter.tokens > 0
  /\ rate_limiter.tokens < window_seconds
  /\ rate_limiter.last_update > 0

\* C6: of the calls made at one time on a fresh limiter exactly the first
\* requests_per_window return true; when such a burst of more than requests_per_window
\* calls is followed, t seconds later, by calls made at one time, exactly the first
\* floor(t * requests_per_window / window_seconds) of them, at most requests_per_window,
\* return true.
C6_BurstThenRefill ==
  \A m \in 1..Len(calls) :
    LET t0 == calls[1].at
        tm == calls[m].at
    IN
    /\ (\A j \in 1..m : calls[j].at = t0) => (calls[m].granted <=> m <= requests_per_window)
    /\ \A b \in (requests_per_window + 1)..(m - 1) :
         (/\ \A j \in 1..b : calls[j].at = t0
          /\ \A j \in (b + 1)..m : calls[j].at = tm
          /\ tm > t0)
         => (calls[m].granted <=>
               m - b <= Min(requests_per_window,
                            ((tm - t0) * requests_per_window) \div window_seconds))

\* a burst emptied the bucket, and of the calls made later, after less than a window, one
\* returned true and the next returned false
C6_Witness ==
  /\ Len(calls) = requests_per_window + 3
  /\ \A j \in 1..(requests_per_window + 1) : calls[j].at = calls[1].at
  /\ calls[requests_per_window + 2].at > calls[1].at
  /\ calls[requests_per_window + 2].at < calls[1].at + window_seconds
  /\ calls[requests_per_window + 3].at = calls[requests_per_window + 2].at
  /\ calls[requests_per_window + 2].granted
  /\ ~calls[requests_per_window + 3].granted

\* C7: whatever the interleaving of the invocations, the tokens granted and the tokens
\* left never exceed the initial capacity plus what the elapsed time refilled, the bucket
\* is never overdrawn and last_update never runs ahead of the clock.
C7_NoTokenGrantedTwice ==
  /\ grants * window_seconds + rate_limiter.tokens
       <= requests_per_window * window_seconds + now * requests_per_window
  /\ rate_limiter.last_update <= now
  /\ rate_limiter.tokens >= 0

\* two invocations are in flight together, each with a token of its own, and the bucket
\* holds less than one token
C7_Witness ==
  /\ \A i \in Requests : inv[i].pc = "transport" /\ inv[i].granted
  /\ rate_limiter.tokens < window_seconds
  /\ grants >= 2

\* C8: an invocation whose acquisition is rejected ends with ExternalServiceError, status
\* 429, after that one acquisition attempt, without consulting the credential provider,
\* the breaker or the transport.
C8_RateLimitRejectionIsTerminal ==
  /\ (last.pc = "done" /\ last.acquires = 1 /\ ~last.granted) =>
       /\ last.result.kind = "ExternalServiceError"
       /\ last.result.status = 429
       /\ last.auth_calls = 0
       /\ last.transport_calls = 0
       /\ last.counted = "none"
  /\ (last.pc = "done" /\ last.result.status = 429) => (last.acquires = 1 /\ ~last.granted)
  /\ \A i \in Requests : inv[i].pc = "transport" => (inv[i].acquires = 1 /\ inv[i].granted)

\* an acquisition was rejected while the breaker held failures and the credentials were invalid
C8_Witness ==
  /\ last.pc = "done"
  /\ last.acquires = 1
  /\ ~last.granted
  /\ last.result.status = 429
  /\ circuit_breaker.failure_count > 0
  /\ ~Valid(credentials)

\* C9: an invocation that finds the session not open (never opened, or closed again) ends
\* with ExternalServiceError "Client session not initialized" before any other guard: no
\* acquisition, no credential fetch, no transport call.
C9_NoSessionFailsFirst ==
  (last.pc = "done" /\ last.session_at_call /= "open") =>
    /\ last.result.kind = "ExternalServiceError"
    /\ last.result.message = "Client session not initialized"
    /\ last.acquires = 0
    /\ last.auth_calls = 0
    /\ last.transport_calls = 0

\* C10: _get_auth_token returns a non-empty token or raises AuthenticationError.
C10_TokenOrAuthenticationError ==
  /\ \A i \in Requests : inv[i].pc = "transport" => inv[i].bearer = "tok"
  /\ (last.pc = "done" /\ last.auth_calls = 1) =>
       \/ last.bearer = "tok"
       \/ last.result.kind = "AuthenticationError" /\ last.transport_calls = 0

ResponseRead(i) ==
  inv[i].pc = "transport" /\ inv'[i].pc = "idle" /\ last'.response.status /= 0

\* what the claim says of every status from 400 on
ErrorStatusMapping(s, res, path) ==
  /\ s = 401 => res.kind = "AuthenticationError" /\ res.status = 401
  /\ s = 404 =>
       /\ res.kind = "ResourceNotFoundError" /\ res.status = 404
       /\ res.details.resource_type = "api_resource"
       /\ res.details.resource_id = path
  /\ s >= 500 => res.kind = "ExternalServiceError" /\ res.status = s
  /\ (s >= 400 /\ s < 500 /\ s \notin {401, 404}) =>
       res.kind = "ExternalServiceError" /\ res.status = 502
  /\ s >= 400 => (res.status >= 500 \/ res.status \in {401, 404})

C13_AppErrorPassesThrough ==
  (last.pc = "done" /\ IsAppError(last.raised)) => last.result = last.raised

\* a ResourceNotFoundError was raised for a 404 response and the caller received it
C13_Witness ==
  /\ last.pc = "done"
  /\ last.raised.kind = "ResourceNotFoundError"
  /\ last.response.status = 404
  /\ last.result = last.raised

\* C14: when the transport call raises asyncio.TimeoutError the caller receives
\* TimeoutError, status 408, with details.operation "{METHOD} {path}" and
\* details.timeout_seconds the configured request timeout, whatever that timeout is.
C14_TimeoutDetails ==
  [][\A i \in Requests :
       (/\ inv[i].pc = "transport" /\ inv'[i].pc = "idle"
        /\ last'.raised.kind = "asyncio.TimeoutError"
        /\ last'.counted = "failure")
       => /\ last'.result.kind = "TimeoutError"
          /\ last'.result.status = 408
          /\ last'.result.details.operation = inv[i].method \o Space \o inv[i].path
          /\ "timeout_seconds" \in DOMAIN last'.result.details
          /\ last'.result.details.timeout_seconds = settings.request_timeout]_vars

\* the number of slashes a text begins with
LeadingSlashes(text) ==
  CHOOSE k \in 0..Len(text) :
    /\ \A j \in 1..k : text[j] = "/"
    /\ k < Len(text) => text[k + 1] /= "/"

\* C15: with its leading slashes dropped, a path that starts with "organizations/" gives
\* "{base_url}/{path}" and every other path gives "{base_url}/organizations/{org}/{path}".
C15_BuildUrl ==
  (call.fn = "_build_url" /\ call.returned) =>
    LET k == LeadingSlashes(call.path)
        path == SubSeq(call.path, k + 1, Len(call.path))
        qualified ==
          /\ Len(path) >= Len(OrganizationsSlash)
          /\ \A j \in 1..Len(OrganizationsSlash) : path[j] = OrganizationsSlash[j]
    IN call.result =
         IF qualified THEN settings.base_url \o Slash \o path
         ELSE settings.base_url \o Slash \o OrganizationsSlash \o settings.organization
                \o Slash \o path

\* "environments/prod" with organization "acme" and base URL "https://api.example/v1" gave
\* https://api.example/v1/organizations/acme/environments/prod
C15_Witness ==
  /\ call.fn = "_build_url"
  /\ call.returned
  /\ call.path = EnvironmentsProd
  /\ settings.base_url = ApiExampleV1
  /\ settings.organization = Acme
  /\ call.result =
       <<"h", "t", "t", "p", "s", ":", "/", "/", "a", "p", "i", ".", "e", "x", "a", "m",
         "p", "l", "e", "/", "v", "1", "/", "o", "r", "g", "a", "n", "i", "z", "a", "t",
         "i", "o", "n", "s", "/", "a", "c", "m", "e", "/", "e", "n", "v", "i", "r", "o",
         "n", "m", "e", "n", "t", "s", "/", "p", "r", "o", "d">>

\* the code of each variant
CodeOf ==
  [ValidationError |-> "VALIDATION_ERROR", InvalidParameterError |-> "INVALID_PARAMETER",
   MissingParameterError |-> "MISSING_PARAMETER",
   ExpiredParameterError |-> "EXPIRED_PARAMETER",
   AuthenticationError |-> "AUTHENTICATION_ERROR",
   AuthorizationError |-> "AUTHORIZATION_ERROR",
   ResourceNotFoundError |-> "RESOURCE_NOT_FOUND",
   ResourceAlreadyExistsError |-> "RESOURCE_ALREADY_EXISTS",
   TimeoutError |-> "TIMEOUT_ERROR", ExternalServiceError |-> "EXTERNAL_SERVICE_ERROR"]
\* the status of each variant but ExternalServiceError
StatusOf ==
  [ValidationError |-> 422, InvalidParameterError |-> 422, MissingParameterError |-> 422,
   ExpiredParameterError |-> 422, AuthenticationError |-> 401, AuthorizationError |-> 403,
   ResourceNotFoundError |-> 404, ResourceAlreadyExistsError |-> 409, TimeoutError |-> 408]
\* the required fields of each variant
RequiredOf ==
  [ValidationError |-> {}, InvalidParameterError |-> {"parameter", "reason"},
   MissingParameterError |-> {"parameter"}, ExpiredParameterError |-> {"parameter"},
   AuthenticationError |-> {}, AuthorizationError |-> {},
   ResourceNotFoundError |-> {"resource_type", "resource_id"},
   ResourceAlreadyExistsError |-> {"resource_type", "resource_id"},
   TimeoutError |-> {"operation"}, ExternalServiceError |-> {"service"}]

\* C16: whatever the arguments of its constructor, an error has the code and the status
\* of its variant (ExternalServiceError the status it was given) and its details hold the
\* variant's required fields with the values of the constructor's arguments.
C16_VariantFixesCodeAndStatus ==
  error.variant /= "none" =>
    /\ error.code = CodeOf[error.variant]
    /\ error.status = (IF error.variant = "ExternalServiceError" THEN error.args.status
                       ELSE StatusOf[error.variant])
    /\ \A f \in RequiredOf[error.variant] :
         f \in DOMAIN error.details /\ error.details[f] = error.args[f]

\* C17: every error constructed has a non-empty correlation_id, and a correlation_id drawn
\* for an error is shared with no error constructed before it.
C17_CorrelationIds ==
  \A k \in 1..Len(correlation_ids) :
    /\ correlation_ids[k].id \notin {"", "None"}
    /\ \A j \in 1..(k - 1) :
         correlation_ids[j].id = correlation_ids[k].id => ~correlation_ids[k].generated

\* an error was constructed with an empty correlation_id after two errors that drew theirs
C17_Witness ==
  /\ Len(correlation_ids) = 3
  /\ \A k \in 1..3 : correlation_ids[k].generated
  /\ error.args.correlation_id = ""
  /\ error.correlation_id = correlation_ids[3].id

\* the result r has the marker at every key of o that contains a sensitive term, at any
\* depth of dicts and lists, and is o everywhere else
RECURSIVE RedactedEverywhere(_, _)
RedactedEverywhere(o, r) ==
  IF TypeOf(o) = "dict"
  THEN /\ TypeOf(r) = "dict"
       /\ DOMAIN Held(r) = DOMAIN Held(o)
       /\ \A key \in DOMAIN Held(o) :
            IF \E pattern \in SENSITIVE_FIELD_PATTERNS : Contains(lower(key), pattern)
            THEN Held(r)[key] = Str("***REDACTED***")
            ELSE RedactedEverywhere(Held(o)[key], Held(r)[key])
  ELSE IF TypeOf(o) = "list"
  THEN /\ TypeOf(r) = "list"
       /\ Len(Held(r)) = Len(Held(o))
       /\ \A n \in 1..Len(Held(o)) : RedactedEverywhere(Held(o)[n], Held(r)[n])
  ELSE r = o

\* C18: in the result of redact_sensitive_fields every key that contains a sensitive term,
\* at any nesting depth of mappings and lists, has the marker as its value and every other
\* key keeps its value and type.
C18_RedactionTotal ==
  (call.fn = "redact_sensitive_fields" /\ call.returned) =>
    RedactedEverywhere(Dict(call.data), Dict(call.result))

\* C19: the mapping of every log event is the redaction of the dict the caller gave, and
\* no key of it that contains a sensitive term has another value than the marker.
C19_LoggedMappingsRedacted ==
  \A n \in 1..Len(log) :
    /\ log[n].mapping = redact_sensitive_fields(log[n].given)
    /\ \A key \in DOMAIN log[n].mapping :
         is_sensitive(key) => log[n].mapping[key] = REDACTED

\* the names of the teams a repository stores
StoredNames(repo) == {repo.teams[id].name : id \in DOMAIN repo.teams}

\* C20: no two stored teams have the same name; create with a stored name raises
\* TeamAlreadyExistsError and leaves the repository as it was; create with an unused name
\* returns a team with an id no stored team had, which get_by_id and get_by_name return.
C20_UniqueNames ==
  /\ \A id1, id2 \in DOMAIN repository.teams :
       repository.teams[id1].name = repository.teams[id2].name => id1 = id2
  /\ (outcome.op = "create" /\ outcome.args.name \in StoredNames(outcome.before)) =>
       /\ outcome.raised = "TeamAlreadyExistsError"
       /\ repository = outcome.before
  /\ (outcome.op = "create" /\ outcome.args.name \notin StoredNames(outcome.before)) =>
       /\ outcome.raised = "none"
       /\ outcome.returned.some
       /\ outcome.returned.value.name = outcome.args.name
       /\ outcome.returned.value.id \notin DOMAIN outcome.before.teams
       /\ get_by_id(repository, outcome.returned.value.id) = outcome.returned
       /\ get_by_name(repository, outcome.args.name) = outcome.returned

\* a name was deleted and created again under another id while another team is stored
C20_Witness ==
  /\ outcome.op = "create"
  /\ outcome.raised = "none"
  /\ Cardinality(DOMAIN repository.teams) = 2
  /\ outcome.returned.value.id = "id-3"

\* C21: update on a stored team returns and stores a team with the same id, name and
\* created_at, with description and members as supplied or, when None was given, as they
\* were; every other team and the name index are as before.  update on an id that is not
\* stored raises TeamNotFoundError and leaves the repository as it was.
C21_UpdateFrame ==
  outcome.op = "update" =>
    LET team_id == outcome.args.team_id
        team_data == outcome.args.team_data
        before == outcome.before
    IN IF team_id \in DOMAIN before.teams
       THEN LET old == before.teams[team_id]
                new == repository.teams[team_id]
            IN /\ outcome.raised = "none"
               /\ outcome.returned = Some(new)
               /\ new.id = old.id /\ new.name = old.name /\ new.created_at = old.created_at
               /\ new.description = IF team_data.description.some
                                    THEN team_data.description ELSE old.description
               /\ new.members = IF team_data.members.some
                                THEN team_data.members.value ELSE old.members
               /\ DOMAIN repository.teams = DOMAIN before.teams
               /\ \A other \in DOMAIN before.teams \ {team_id} :
                    repository.teams[other] = before.teams[other]
               /\ repository.teams_by_name = before.teams_by_name
       ELSE /\ outcome.raised = "TeamNotFoundError"
            /\ repository = before

\* a team with a description and a member is updated with both fields None while another
\* team is stored
C21_Witness ==
  /\ outcome.op = "update"
  /\ outcome.raised = "none"
  /\ outcome.args.team_data = [description |-> None, members |-> None]
  /\ outcome.returned.value.description = Some("first")
  /\ outcome.returned.value.members = <<"a@x">>
  /\ outcome.returned.value.updated_at /= outcome.returned.value.created_at
  /\ Cardinality(DOMAIN repository.teams) = 2

\* what delete(team_id) found and left behind
DeleteOutcome ==
  outcome.op = "delete" =>
    LET team_id == outcome.args
        before == outcome.before
    IN /\ outcome.raised = "none"
       /\ outcome.returned = Some(team_id \in DOMAIN before.teams)
       /\ IF team_id \in DOMAIN before.teams
          THEN /\ get_by_id(repository, team_id) = None
               /\ ~exists_by_name(repository, before.teams[team_id].name)
          ELSE repository = before

\* a delete that follows a delete of the same id that returned True returns False
DeleteTwice ==
  (/\ outcome.op = "delete" /\ outcome.returned = Some(TRUE)
   /\ outcome'.op = "delete" /\ outcome'.args = outcome.args)
  => outcome'.returned = Some(FALSE)

\* C22: delete returns True exactly when the team is stored at the call, and then
\* get_by_id of the id returns None and exists_by_name of its name returns False; it
\* returns False and changes nothing when the id is not stored; deleting the same id twice
\* returns True then False.
C22_Delete == []DeleteOutcome /\ [][DeleteTwice]_vars

\* a stored team was deleted while another stays stored
C22_Witness ==
  /\ outcome.op = "delete"
  /\ outcome.returned = Some(TRUE)
  /\ Cardinality(DOMAIN repository.teams) = 1
  /\ Cardinality(DOMAIN outcome.before.teams) = 2

\* the bucket as the refill at this instant leaves it
Refilled == Refill(rate_limiter.tokens, now - rate_limiter.last_update)

\* C30: a step that grants a token leaves the refilled bucket one token lower, and no later
\* step of the invocation (credential failure, breaker rejection, transport failure or
\* timeout) raises it again: a step without a grant leaves the limiter as it is or, on a
\* rejection, refilled and below one token.  The breaker changes only in a step that ends
\* an invocation whose breaker-wrapped transport call was made and counted.
C30_TokenKept ==
  [][/\ grants' = grants + 1 =>
          /\ rate_limiter'.tokens = Refilled - window_seconds
          /\ rate_limiter'.last_update = now
     /\ grants' = grants =>
          \/ rate_limiter' = rate_limiter
          \/ /\ rate_limiter' = [tokens |-> Refilled, last_update |-> now]
             /\ Refilled < window_seconds
             /\ last'.result.status = 429
     /\ grants' \in {grants, grants + 1}
     /\ circuit_breaker' /= circuit_breaker =>
          /\ last'.pc = "done"
          /\ last'.transport_calls = 1
          /\ last'.counted /= "none"]_vars

\* the credential provider failed after the grant: the token is spent, the breaker is as
\* constructed
C30_Witness ==
  /\ last.pc = "done"
  /\ last.granted
  /\ last.result.kind = "AuthenticationError"
  /\ last.transport_calls = 0
  /\ grants = 1
  /\ rate_limiter.tokens = (requests_per_window - 1) * window_seconds
  /\ circuit_breaker = NewCircuitBreaker

\* the name index maps a name to an id exactly when a team of that name is stored under
\* that id, and the reads by name agree with exists_by_name
IndicesConsistent ==
  /\ \A name \in DOMAIN repository.teams_by_name :
       /\ repository.teams_by_name[name] \in DOMAIN repository.teams
       /\ repository.teams[repository.teams_by_name[name]].name = name
  /\ \A team_id \in DOMAIN repository.teams :
       /\ repository.teams[team_id].id = team_id
       /\ repository.teams[team_id].name \in DOMAIN repository.teams_by_name
       /\ repository.teams_by_name[repository.teams[team_id].name] = team_id
  /\ \A name \in TeamNames :
       /\ get_by_name(repository, name).some <=> exists_by_name(repository, name)
       /\ exists_by_name(repository, name) <=> name \in StoredNames(repository)
       /\ get_by_name(repository, name).some => get_by_name(repository, name).value.name = name

\* a create that follows the delete of a team of the same name succeeds
AvailableAgain ==
  (/\ outcome.op = "delete" /\ outcome.returned = Some(TRUE)
   /\ outcome'.op = "create"
   /\ outcome'.args.name = outcome.before.teams[outcome.args].name)
  => (outcome'.raised = "none" /\ outcome'.returned.some)

\* C27: in every reachable state _teams_by_name maps a name to an id exactly when _teams
\* holds a team of that name under that id, get_by_name returns a team exactly when
\* exists_by_name is true, and the name of a deleted team can be created again.
C27_IndicesConsistent == []IndicesConsistent /\ [][AvailableAgain]_vars

\* a team was deleted while another is stored and was updated: the deleted name is in
\* neither index, the other team is in both
C27_Witness ==
  /\ outcome.op = "delete"
  /\ outcome.returned = Some(TRUE)
  /\ Cardinality(DOMAIN repository.teams_by_name) = 1
  /\ \E team_id \in DOMAIN repository.teams :
       /\ repository.teams[team_id].description = Some("second")
       /\ repository.teams[team_id].name /= outcome.before.teams[outcome.args].name

\* C28: an update_team call that raises leaves _teams and _name_index as they were.
C28_FailedUpdateChangesNothing ==
  (outcome.op = "update_team" /\ outcome.raised /= "none") => repository = outcome.before

\* C24: once every scope entered on a client has been left, on either path, every session
\* the client opened is closed.
C24_SessionsClosedWhenLeft ==
  \A c \in Clients :
    sessions[c].entered = 0 =>
      \A n \in 1..Len(sessions[c].created) : sessions[c].created[n] = "closed"

\* C23: call_tool never raises: every call that ended gave its caller a response or an
\* error response.
C23_CallToolNeverRaises == tool.pc = "done" => tool.result.kind /= "raised"

\* C26: whatever tool calls were made before, and whenever, the request of a tool call
\* finds a session, is granted a token and finds the breaker CLOSED: no request of a tool
\* call ends with status 429 or with a CircuitBreakerError.
C26_EveryToolCallAdmitted ==
  /\ \A rec \in {inv["r1"], last} :
       rec.pc /= "idle" =>
         /\ rec.session_at_call = "open"
         /\ rec.acquires = 1
         /\ rec.granted
         /\ rec.breaker_at_call = "closed"
  /\ last.result.status /= 429
  /\ last.raised.kind /= "CircuitBreakerError"
  /\ circuit_breaker.state = "closed"

\* as many earlier tool calls failed in the transport as open a breaker, all calls were
\* made at one instant, and the request of the last call is with the transport
C26_Witness ==
  /\ tool.failed >= failure_threshold
  /\ tool.count > requests_per_window
  /\ now = 0
  /\ tool.pc = "request"
  /\ inv["r1"].pc = "transport"

\* C29: a delete-team call whose team_id is a string with a character that is not
\* whitespace ends with the success response {success: true, team_id}, whether the team
\* is stored or not; when it is not stored the repository is left as it was, and when it
\* is stored it is removed.  A get-team call for a team that is not stored raises
\* ResourceNotFoundError and gives no success response.
C29_DeleteTeamAlwaysSucceeds ==
  [][/\ (/\ tool'.count = tool.count + 1
         /\ tool'.name = "delete-team"
         /\ NonEmptyString(Get(tool'.arguments, "team_id")))
        => LET id == Join(tool'.arguments.team_id) IN
           /\ tool'.pc = "done"
           /\ tool'.result = [kind |-> "response", operation |-> "Delete Team: " \o id,
                               data |-> [success |-> TRUE, team_id |-> id],
                               exception |-> "none", first |-> "none"]
           /\ id \notin DOMAIN repository.teams => repository' = repository
           /\ id \in DOMAIN repository.teams =>
                /\ DOMAIN repository'.teams = DOMAIN repository.teams \ {id}
                /\ tool'.stored
     /\ (/\ tool'.count = tool.count + 1
         /\ tool'.name = "get-team"
         /\ NonEmptyString(Get(tool'.arguments, "team_id"))
         /\ Join(tool'.arguments.team_id) \notin DOMAIN repository.teams)
        => /\ tool'.pc = "done"
           /\ tool'.result.first = "ResourceNotFoundError"
           /\ tool'.result.kind /= "response"
           /\ repository' = repository]_vars

\* delete-team was called for an id that is not stored while another team is stored, and
\* answered with the success response
C29_Witness ==
  /\ tool.pc = "done"
  /\ tool.name = "delete-team"
  /\ tool.arguments = [team_id |-> Id2Text]
  /\ ~tool.stored
  /\ tool.result.kind = "response"
  /\ tool.result.data = [success |-> TRUE, team_id |-> "id-2"]
  /\ DOMAIN repository.teams = {"id-1"}

\* the attempts with_retry allows: the stop condition is asked only after an attempt
AttemptsAllowed == IF call.max_attempts >= 1 THEN call.max_attempts ELSE 1

\* C25 as stated: the function is invoked at most max_attempts times.
C25_AtMostMaxAttempts == Len(call.history) <= call.max_attempts

\* what the invocations made so far and the result of the call look like
RetryOutcome ==
  /\ Len(call.history) <= AttemptsAllowed
  /\ \A n \in 1..(Len(call.history) - 1) : call.history[n] \in call.exceptions
  /\ call.pc = "wait" => call.history[Len(call.history)] \in call.exceptions
  /\ call.pc = "done" =>
       LET final == call.history[Len(call.history)] IN
       /\ final = "return" <=> call.result = "returned"
       /\ final /= "return" => call.result = final
       /\ final \in call.exceptions => Len(call.history) = AttemptsAllowed
  /\ call.pc /= "done" => call.result = "none"

\* C25: the call ends, after at most max_attempts invocations (one when max_attempts is
\* below 1): every invocation but the last raised an exception of the set, a returned
\* value or an exception outside the set ends the call at once, and an exception of the
\* set is re-raised only by the last allowed attempt.
C25_RetryBounded == []RetryOutcome /\ <>(call.pc = "done")

\* every allowed attempt raised an exception of the set and the last one was re-raised
C25_Witness ==
  /\ call.pc = "done"
  /\ call.max_attempts = MaxAttempts
  /\ Len(call.history) = MaxAttempts
  /\ call.result = "ValueError"
  /\ Len(log) = MaxAttempts

====
